---- MODULE Spec2Model ----
(***************************************************************************)
(* Model of code.py of fruit-jam-portable-midi-synth: the main() service   *)
(* loop that scans the USB host bus for a MIDI device, connects, and turns *)
(* 4-byte USB-MIDI event packets into synthio press / release /            *)
(* release_all calls.                                                      *)
(*                                                                         *)
(* A packet is a 4-tuple of bytes <<b0, b1, b2, b3>>; Python's data[i] is  *)
(* p[i+1] here.  Python's None is the empty tuple.                         *)
(***************************************************************************)
EXTENDS Integers, Sequences, FiniteSets, TLC

VARIABLES
    state,          \* supervisor position: "Scanning", "Connected", "Crashed"
    r,              \* ScanResult of find_usb_device: "None", "midi", "other"
    dev,            \* MIDIInputDevice handle: "unbound" or "open"
    device_cache,   \* the dict handed to find_usb_device, as its key set
    data,           \* loop variable of the event loop: a packet or None
    cin, chan, num, val,    \* fields decoded from the last packet
    pressed,        \* notes the Synthesizer is sounding (synth.pressed)
    before,         \* pressed as it was before the last step
    DEBUG,          \* the module-level tracing flag
    cmds,           \* synth calls made by the last step, in call order
    out,            \* lines written to the console by the last step
    op,             \* name of the last step taken
    exc,            \* exception raised in the last step, or "none"
    raw,            \* last packet read from the bus by the event generator
    mpe_skip,       \* countdown for polyphonic key pressure thinning
    cp_skip,        \* countdown for channel pressure thinning
    mpe_seen, mpe_fwd,  \* this connection: pressure packets read / yielded
    cp_seen, cp_fwd,
    delivered,      \* this connection: packets yielded to the loop, in order
    issued,         \* this connection: synth calls made, in order
    heard           \* this connection: the pool each packet found, in order

vars == <<state, r, dev, device_cache, data, cin, chan, num, val, pressed,
          before, DEBUG, cmds, out, op, exc, raw, mpe_skip, cp_skip,
          mpe_seen, mpe_fwd, cp_seen, cp_fwd, delivered, issued, heard>>

supervisor == <<state, r, dev, device_cache>>
fields     == <<cin, chan, num, val>>
thinning   == <<mpe_skip, cp_skip>>
thinlog    == <<mpe_seen, mpe_fwd, cp_seen, cp_fwd>>
tracelog   == <<delivered, issued, heard>>

None == <<>>

(***************************************************************************)
(* Input domains.                                                          *)
(***************************************************************************)
\* byte 0: CN << 4 | CIN.  0x08 note off, 0x09 note on, 0x0A poly pressure,
\* 0x0B CC, 0x0D channel pressure, 0x0E pitch bend, 0x0F single byte,
\* 0x19 note on from cable 1.
Byte0s == {8, 9, 10, 11, 13, 14, 15, 25}
\* byte 1: MIDI status.  0x90 (channel 1), 0xB2 (channel 3), 0xF8 (clock).
Byte1s == {144, 178, 248}
\* byte 2: note / controller number.
Byte2s == {20, 21, 60, 108, 109, 123}
\* byte 3: velocity / value.
Byte3s == {0, 100}

\* CC 123 = 0 on each of the 16 channels (status 0xB0..0xBF).
PanicPackets == {<<11, 176 + c, 123, 0>> : c \in 0..15}

Packets == (Byte0s \X Byte1s \X Byte2s \X Byte3s) \cup PanicPackets

ScanResults == {"midi", "other"}

(***************************************************************************)
(* The event loop body, lines 185-237.                                     *)
(***************************************************************************)
\* The None test lost: every yielded value is taken for a packet.
IsPacketAlways(d) == TRUE

\* The test of lines 185-186: None is skipped.
IsPacket(d) == d # None

\* The cable number kept in the code index number.
DecodeCinUnmasked(d) == d[1]
\* The code index number read from the status byte, data[1].
DecodeCinFromStatus(d) == d[2] % 16

DecodeCin(d)  == d[1] % 16
DecodeChan(d) == (d[2] % 16) + 1
DecodeNum(d)  == d[3]
DecodeVal(d)  == d[4]

\* The range test starting one note low.
InRangeFromTwenty(n) == 20 <= n /\ n <= 108

InRange(n) == 21 <= n /\ n <= 108

\* Variants of the three tests with one condition lost.
IsNoteOffAnyNote(c, n)   == c = 8
IsNoteOnAnyNote(c, n)    == c = 9
IsPanicAllSoundOff(c, n, v) == c = 11 /\ n = 120 /\ v = 0
\* The note off test against the status byte 0x80 instead of the CIN 0x08.
IsNoteOffStatusByte(c, n) == c = 128 /\ 21 <= n /\ n <= 108

IsNoteOff(c, n) == c = 8 /\ InRange(n)
IsNoteOn(c, n)  == c = 9 /\ InRange(n)
IsPanic(c, n, v) == c = 11 /\ n = 123 /\ v = 0

\* The chain with the value test of the panic branch lost.
VoiceCmdsAnyValue(c, n, v) ==
    IF c = 8 /\ 21 <= n /\ n <= 108 THEN << <<"release", n>> >>
    ELSE IF c = 9 /\ 21 <= n /\ n <= 108 THEN << <<"press", n>> >>
    ELSE IF c = 11 /\ n = 123 THEN << <<"release_all">> >>
    ELSE <<>>

\* The chain reading a NoteOn of velocity 0 as a NoteOff.
VoiceCmdsVelocityZeroOff(c, n, v) ==
    IF c = 8 /\ 21 <= n /\ n <= 108 THEN << <<"release", n>> >>
    ELSE IF c = 9 /\ 21 <= n /\ n <= 108
         THEN IF v = 0 THEN << <<"release", n>> >>
                       ELSE << <<"press", n>> >>
    ELSE IF c = 11 /\ n = 123 /\ v = 0 THEN << <<"release_all">> >>
    ELSE <<>>

\* The chain with a NoteOn of velocity 0 ending its note after starting it.
VoiceCmdsPressRelease(c, n, v) ==
    IF c = 8 /\ 21 <= n /\ n <= 108 THEN << <<"release", n>> >>
    ELSE IF c = 9 /\ 21 <= n /\ n <= 108
         THEN IF v = 0 THEN << <<"press", n>>, <<"release", n>> >>
                       ELSE << <<"press", n>> >>
    ELSE IF c = 11 /\ n = 123 /\ v = 0 THEN << <<"release_all">> >>
    ELSE <<>>

\* The if / elif / elif chain of lines 208-217: the synth calls one packet
\* makes, in call order.
VoiceCmds(c, n, v) ==
    IF IsNoteOff(c, n) THEN << <<"release", n>> >>
    ELSE IF IsNoteOn(c, n) THEN << <<"press", n>> >>
    ELSE IF IsPanic(c, n, v) THEN << <<"release_all">> >>
    ELSE <<>>

\* The synth calls the loop body makes for packet p: lines 197-216.
LoopCalls(p) == VoiceCmds(DecodeCin(p), DecodeNum(p), DecodeVal(p))

\* synthio.Synthesizer: press sounds a note (retriggering it when it already
\* sounds), release stops it, release_all stops every note.
SynthCall(pool, cmd) ==
    IF cmd[1] = "press" THEN pool \cup {cmd[2]}
    ELSE IF cmd[1] = "release" THEN pool \ {cmd[2]}
    ELSE {}

RECURSIVE SynthCalls(_, _)
SynthCalls(pool, cs) ==
    IF cs = <<>> THEN pool
    ELSE SynthCalls(SynthCall(pool, Head(cs)), Tail(cs))

\* fast_wr('PANIC ...') of line 217.
PanicLine(c, ch, n, v) ==
    IF IsPanic(c, n, v) THEN << <<"PANIC", ch, n, v>> >> ELSE <<>>

\* The if DEBUG: block of lines 218-237.
DebugLine(dbg, c, ch, n, v) ==
    IF ~dbg THEN <<>>
    ELSE IF c = 8 THEN << <<"Off", ch, n, v>> >>
    ELSE IF c = 9 THEN << <<"On", ch, n, v>> >>
    ELSE IF c = 11 THEN << <<"CC", ch, n, v>> >>
    ELSE IF c = 10 THEN << <<"MPE", ch, n, v>> >>
    ELSE IF c = 13 THEN << <<"CP", ch, n, v>> >>
    ELSE IF c = 14 THEN << <<"PB", ch, n, v>> >>
    ELSE <<>>

\* The loop body acting one packet late: it dispatches the fields it held
\* before decoding d.
LoopBodyLagged(d) ==
    /\ data' = d
    /\ before' = pressed
    /\ IF d # None
       THEN /\ cin'  = d[1] % 16
            /\ chan' = (d[2] % 16) + 1
            /\ num'  = d[3]
            /\ val'  = d[4]
       ELSE UNCHANGED fields
    /\ IF d # None
       THEN /\ cmds' = VoiceCmds(cin, num, val)
            /\ pressed' = SynthCalls(pressed, cmds')
            /\ out' = PanicLine(cin, chan, num, val)
                      \o DebugLine(DEBUG, cin, chan, num, val)
       ELSE /\ cmds' = <<>>
            /\ out' = <<>>
            /\ UNCHANGED pressed

\* The loop body with the trace taking the place of the dispatch when
\* DEBUG is set.
LoopBodyTraceOnly(d) ==
    /\ data' = d
    /\ before' = pressed
    /\ IF d # None
       THEN /\ cin'  = d[1] % 16
            /\ chan' = (d[2] % 16) + 1
            /\ num'  = d[3]
            /\ val'  = d[4]
       ELSE UNCHANGED fields
    /\ IF d # None /\ ~DEBUG
       THEN /\ cmds' = VoiceCmds(cin', num', val')
            /\ pressed' = SynthCalls(pressed, cmds')
            /\ out' = PanicLine(cin', chan', num', val')
       ELSE /\ cmds' = <<>>
            /\ out' = IF d # None
                      THEN DebugLine(DEBUG, cin', chan', num', val')
                      ELSE <<>>
            /\ UNCHANGED pressed

\* One iteration of the for loop for the yielded value d.
LoopBody(d) ==
    /\ data' = d
    /\ before' = pressed
    /\ IF d # None
       THEN /\ cin'  = DecodeCin(d)
            /\ chan' = DecodeChan(d)
            /\ num'  = DecodeNum(d)
            /\ val'  = DecodeVal(d)
       ELSE UNCHANGED fields
    /\ IF IsPacket(d)
       THEN /\ cmds' = VoiceCmds(cin', num', val')
            /\ pressed' = SynthCalls(pressed, cmds')
            /\ out' = PanicLine(cin', chan', num', val')
                      \o DebugLine(DEBUG, cin', chan', num', val')
       ELSE /\ cmds' = <<>>
            /\ out' = <<>>
            /\ UNCHANGED pressed

(***************************************************************************)
(* The supervisor: the while True loop of lines 147-245.                   *)
(***************************************************************************)
\* The except clauses with one of the two missing.
CaughtValueErrorOnly(e) == e = "ValueError"
CaughtUSBErrorOnly(e)   == e = "USBError"

\* The except clauses of lines 238-245: USBError and ValueError are caught;
\* anything else leaves main().
Caught(e) == e \in {"USBError", "ValueError"}

\* Handlers that silence the synthesizer.
OnDisconnectSilence(pool) == {}

\* What the except clauses do to the synthesizer: nothing.
OnDisconnect(pool) == pool

\* The exceptions the USB collaborators raise.
ScanFaults   == {"USBError"}
OpenFaults   == {"USBError", "ValueError"}
StreamFaults == {"USBError"}

\* Start of the next iteration of the while True loop, lines 148-153.
LoopTop(lines) ==
    /\ state' = "Scanning"
    /\ r' = "None"
    /\ device_cache' = {}
    /\ out' = lines \o << <<"scanning">> >>

\* An exception e leaves the try block.
Raise(e, step) ==
    /\ op' = step
    /\ exc' = e
    /\ cmds' = <<>>
    /\ before' = pressed
    /\ pressed' = OnDisconnect(pressed)
    /\ IF Caught(e)
       THEN LoopTop(<< <<e>> >>)
       ELSE /\ state' = "Crashed"
            /\ out' = << <<"Traceback", e>> >>
            /\ UNCHANGED <<r, device_cache>>
    /\ UNCHANGED <<dev, data, fields, DEBUG, raw, thinning, thinlog, tracelog>>

\* find_usb_device(device_cache) finds nothing: r stays None, sleep, retry.
FindNone ==
    /\ state = "Scanning" /\ r = "None"
    /\ op' = "find_none"
    /\ exc' = "none"
    /\ cmds' = <<>>
    /\ out' = <<>>
    /\ before' = pressed
    /\ UNCHANGED <<state, r, dev, device_cache, data, fields, pressed, DEBUG,
                   raw, thinning, thinlog, tracelog>>

\* find_usb_device(device_cache) returns a ScanResult.
FindDevice(k) ==
    /\ state = "Scanning" /\ r = "None"
    /\ op' = "find_device"
    /\ exc' = "none"
    /\ r' = k
    /\ device_cache' = device_cache \cup {k}
    /\ cmds' = <<>>
    /\ out' = <<>>
    /\ before' = pressed
    /\ UNCHANGED <<state, dev, data, fields, pressed, DEBUG, raw,
                   thinning, thinlog, tracelog>>

\* find_usb_device raises.
FindError(e) ==
    /\ state = "Scanning" /\ r = "None"
    /\ Raise(e, "find_error")

\* The skip interval of the event generator's thinning counters.
SkipCount == 6

\* Any found device accepted, whatever its descriptor.
OpenDeviceAny ==
    /\ state = "Scanning" /\ r # "None"
    /\ op' = "open"
    /\ exc' = "none"
    /\ dev' = "open"
    /\ out' = << <<"found">> >>
    /\ r' = "None"
    /\ device_cache' = {}
    /\ cin' = 0 /\ chan' = 0 /\ num' = 0 /\ val' = 0
    /\ state' = "Connected"
    /\ cmds' = <<>>
    /\ mpe_skip' = SkipCount /\ cp_skip' = SkipCount
    /\ mpe_seen' = 0 /\ mpe_fwd' = 0 /\ cp_seen' = 0 /\ cp_fwd' = 0
    /\ delivered' = <<>> /\ issued' = <<>> /\ heard' = <<>>
    /\ before' = pressed
    /\ UNCHANGED <<data, pressed, DEBUG, raw>>

\* MIDIInputDevice(r) accepts the device: lines 161-182.  The for statement
\* starts a fresh event generator, whose counters start at SkipCount.
OpenDevice ==
    /\ state = "Scanning" /\ r = "midi"
    /\ op' = "open"
    /\ exc' = "none"
    /\ dev' = "open"
    /\ out' = << <<"found">> >>
    /\ r' = "None"
    /\ device_cache' = {}
    /\ cin' = 0 /\ chan' = 0 /\ num' = 0 /\ val' = 0
    /\ state' = "Connected"
    /\ cmds' = <<>>
    /\ mpe_skip' = SkipCount /\ cp_skip' = SkipCount
    /\ mpe_seen' = 0 /\ mpe_fwd' = 0 /\ cp_seen' = 0 /\ cp_fwd' = 0
    /\ delivered' = <<>> /\ issued' = <<>> /\ heard' = <<>>
    /\ before' = pressed
    /\ UNCHANGED <<data, pressed, DEBUG, raw>>

\* MIDIInputDevice(r) raises: the descriptor is not a MIDI device's, or the
\* handshake glitched, or the bus failed.
OpenError(e) ==
    /\ state = "Scanning" /\ r # "None"
    /\ r = "other" => e = "ValueError"
    /\ Raise(e, "open_error")

\* The generator yields None: no packet this poll.
Idle ==
    /\ state = "Connected"
    /\ op' = "idle"
    /\ exc' = "none"
    /\ LoopBody(None)
    /\ UNCHANGED <<supervisor, DEBUG, raw, thinning, thinlog, tracelog>>

\* The generator yields packet p.  Whatever the generator does with the bus
\* traffic, the loop is handed a 4-byte packet or None; here it may be handed
\* any packet.
Deliver(p) ==
    /\ state = "Connected"
    /\ op' = "packet"
    /\ exc' = "none"
    /\ LoopBody(p)
    /\ UNCHANGED <<supervisor, DEBUG, raw, thinning, thinlog, tracelog>>

\* The generator raises while the loop waits for the next value.
StreamError(e) ==
    /\ state = "Connected"
    /\ Raise(e, "fault")

\* The generator returns: the for loop ends and the while loop goes round.
EndOfStream ==
    /\ state = "Connected"
    /\ op' = "eos"
    /\ exc' = "none"
    /\ cmds' = <<>>
    /\ LoopTop(<<>>)
    /\ before' = pressed
    /\ UNCHANGED <<dev, data, fields, pressed, DEBUG, raw,
                   thinning, thinlog, tracelog>>

(***************************************************************************)
(* The event generator, dev.input_event_generator() of sb_usb_midi: it     *)
(* reads packets from the bus and yields each one, or None for a packet it *)
(* drops.  It drops System Real-Time messages, and lets one pressure       *)
(* message in SkipCount through, counting each kind on its own.            *)
(***************************************************************************)
MaxPressure == 12

\* Packets the bus carries in the thinning runs.
ThinPackets == {9, 10, 13, 15} \X {160, 248} \X {60} \X {100}

IsRealTime(p) == p[1] % 16 = 15 /\ 248 <= p[2] /\ p[2] <= 255
IsPolyPressure(p) == p[1] % 16 = 10
IsChanPressure(p) == p[1] % 16 = 13

\* The counter reset one short.
CountdownShort(k) == IF k - 1 = 0 THEN SkipCount - 1 ELSE k - 1

\* A counter is decremented by a message of its kind; the message passes
\* when the counter reaches zero, and the counter is then reset.
Passes(k)    == k - 1 = 0
Countdown(k) == IF Passes(k) THEN SkipCount ELSE k - 1

\* What the generator yields for bus packet p.
Yield(p, mk, ck) ==
    IF IsRealTime(p) THEN None
    ELSE IF IsPolyPressure(p) THEN (IF Passes(mk) THEN p ELSE None)
    ELSE IF IsChanPressure(p) THEN (IF Passes(ck) THEN p ELSE None)
    ELSE p

\* The generator reads p from the bus, and the loop handles what it yields.
Receive(p) ==
    /\ state = "Connected"
    /\ IsPolyPressure(p) => mpe_seen < MaxPressure
    /\ IsChanPressure(p) => cp_seen < MaxPressure
    /\ op' = "recv"
    /\ exc' = "none"
    /\ raw' = p
    /\ mpe_skip' = IF IsPolyPressure(p) /\ ~IsRealTime(p)
                   THEN Countdown(mpe_skip) ELSE mpe_skip
    /\ cp_skip' = IF IsChanPressure(p) /\ ~IsRealTime(p)
                  THEN Countdown(cp_skip) ELSE cp_skip
    /\ LoopBody(Yield(p, mpe_skip, cp_skip))
    /\ mpe_seen' = IF IsPolyPressure(p) THEN mpe_seen + 1 ELSE mpe_seen
    /\ cp_seen' = IF IsChanPressure(p) THEN cp_seen + 1 ELSE cp_seen
    /\ mpe_fwd' = IF IsPolyPressure(p) /\ data' # None
                  THEN mpe_fwd + 1 ELSE mpe_fwd
    /\ cp_fwd' = IF IsChanPressure(p) /\ data' # None
                 THEN cp_fwd + 1 ELSE cp_fwd
    /\ UNCHANGED <<supervisor, DEBUG, tracelog>>

(***************************************************************************)
(* The event loop with the packets of one connection logged.               *)
(***************************************************************************)
MaxTrace == 3

\* Packets the generator yields in the logged runs.
OrderPackets ==
    ({8, 9} \X {144} \X {21, 60, 123} \X {0})
        \cup ({11} \X {144} \X {60, 123} \X {0})

DeliverLogged(p) ==
    /\ state = "Connected"
    /\ Len(delivered) < MaxTrace
    /\ op' = "packet"
    /\ exc' = "none"
    /\ LoopBody(p)
    /\ delivered' = Append(delivered, p)
    /\ issued' = issued \o cmds'
    /\ heard' = Append(heard, pressed)
    /\ UNCHANGED <<supervisor, DEBUG, raw, thinning, thinlog>>

Scan ==
    \/ FindNone
    \/ \E k \in ScanResults : FindDevice(k)
    \/ \E e \in ScanFaults : FindError(e)
    \/ OpenDevice
    \/ \E e \in OpenFaults : OpenError(e)

Disconnect ==
    \/ \E e \in StreamFaults : StreamError(e)
    \/ EndOfStream

Init ==
    /\ state = "Scanning"
    /\ r = "None"
    /\ dev = "unbound"
    /\ device_cache = {}
    /\ data = None
    /\ cin = 0 /\ chan = 0 /\ num = 0 /\ val = 0
    /\ pressed = {}
    /\ before = {}
    /\ DEBUG \in BOOLEAN
    /\ cmds = <<>>
    /\ out = << <<"scanning">> >>
    /\ op = "start"
    /\ exc = "none"
    /\ raw = None
    /\ mpe_skip = SkipCount /\ cp_skip = SkipCount
    /\ mpe_seen = 0 /\ mpe_fwd = 0 /\ cp_seen = 0 /\ cp_fwd = 0
    /\ delivered = <<>> /\ issued = <<>> /\ heard = <<>>

Next ==
    \/ Scan
    \/ Idle
    \/ \E p \in Packets : Deliver(p)
    \/ Disconnect

Spec == Init /\ [][Next]_vars

\* The loop fed by the event generator.
NextThin ==
    \/ Scan
    \/ Idle
    \/ \E p \in ThinPackets : Receive(p)
    \/ Disconnect

SpecThin == Init /\ [][NextThin]_vars

\* The loop with its packets logged.
NextOrder ==
    \/ Scan
    \/ Idle
    \/ \E p \in OrderPackets : DeliverLogged(p)
    \/ Disconnect

SpecOrder == Init /\ [][NextOrder]_vars

(***************************************************************************)
(* Properties.                                                             *)
(***************************************************************************)
\* The packet the last step handled, when it handled one.
Handled == op = "packet" /\ data # None

PressCalls == SelectSeq(cmds, LAMBDA c : c[1] = "press")

\* C1: a packet with code index number 0x9 makes exactly one call
\* press(note), note = byte 2, and no other call, when 21 <= note <= 108,
\* and makes no call when the note is outside that range; the note then
\* sounds.  [0x09, 0x90, 0x3C, 0x64] makes the one call press(60).
C1_NoteOnPress ==
    (Handled /\ data[1] % 16 = 9) =>
        IF 21 <= data[3] /\ data[3] <= 108
        THEN /\ cmds = << <<"press", data[3]>> >>
             /\ PressCalls = << <<"press", data[3]>> >>
             /\ pressed = before \cup {data[3]}
        ELSE /\ PressCalls = <<>>
             /\ cmds = <<>>
             /\ pressed = before

C1_Witness ==
    /\ Handled
    /\ data = <<9, 144, 60, 100>>
    /\ cmds = << <<"press", 60>> >>
    /\ 60 \notin before

\* C2: a packet with code index number 0x8 and byte 2 in 21..108 makes
\* exactly one call release(note) and leaves the note silent, whether or not
\* it sounded before; with byte 2 outside 21..108 it makes no call, raises
\* nothing and the loop stays connected.
C2_NoteOffRelease ==
    (Handled /\ data[1] % 16 = 8) =>
        IF 21 <= data[3] /\ data[3] <= 108
        THEN /\ cmds = << <<"release", data[3]>> >>
             /\ data[3] \notin pressed
             /\ pressed = before \ {data[3]}
        ELSE /\ cmds = <<>>
             /\ pressed = before
             /\ exc = "none"
             /\ state = "Connected"

C2_Witness ==
    /\ Handled
    /\ data[1] = 8 /\ data[3] = 60
    /\ 60 \in before
    /\ pressed = {21, 108}

\* C3: control change 123 with value 0, on any of the 16 channels, makes
\* exactly one call release_all(), after which no note sounds, whatever
\* sounded before; handled when nothing sounds it leaves the pool as it was.
C3_PanicReleasesAll ==
    (Handled /\ data[1] % 16 = 11 /\ data[3] = 123 /\ data[4] = 0) =>
        /\ cmds = << <<"release_all">> >>
        /\ pressed = {}
        /\ before = {} => pressed = before

C3_Witness ==
    /\ Handled
    /\ data = <<11, 178, 123, 0>>
    /\ chan = 3
    /\ before = {21, 60, 108}
    /\ pressed = {}

\* C4: a packet that is not a note on or note off with a note in 21..108 and
\* not control change 123 = 0 makes no synth call, leaves the pool as it
\* was, raises nothing and leaves the loop connected.
C4_OthersLeavePool ==
    (/\ Handled
     /\ ~(data[1] % 16 \in {8, 9} /\ 21 <= data[3] /\ data[3] <= 108)
     /\ ~(data[1] % 16 = 11 /\ data[3] = 123 /\ data[4] = 0)) =>
        /\ cmds = <<>>
        /\ pressed = before
        /\ exc = "none"
        /\ state = "Connected"

C4_Witness ==
    /\ Handled
    /\ data = <<11, 178, 123, 100>>
    /\ pressed = {21, 60, 108}

C6_PressureThinned ==
    /\ mpe_fwd = mpe_seen \div 6
    /\ cp_fwd = cp_seen \div 6
    /\ mpe_seen = 12 => mpe_fwd = 2
    /\ (op = "recv" /\ raw[1] % 16 = 10) =>
          /\ cmds = <<>>
          /\ IF mpe_seen % 6 = 0
             THEN /\ data = raw
                  /\ DEBUG => out = << <<"MPE", (raw[2] % 16) + 1, raw[3], raw[4]>> >>
             ELSE /\ data = None
                  /\ out = <<>>
    /\ (op = "recv" /\ raw[1] % 16 = 13) =>
          /\ cmds = <<>>
          /\ IF cp_seen % 6 = 0
             THEN /\ data = raw
                  /\ DEBUG => out = << <<"CP", (raw[2] % 16) + 1, raw[3], raw[4]>> >>
             ELSE /\ data = None
                  /\ out = <<>>

C6_Witness ==
    /\ op = "recv"
    /\ raw[1] = 10
    /\ data = raw
    /\ mpe_seen = 12
    /\ mpe_fwd = 2
    /\ cp_seen = 5
    /\ cp_fwd = 0

\* The synth call a packet is to make, read off the USB-MIDI framing.
ExpectedCalls(p) ==
    IF p[1] % 16 = 8 /\ p[3] \in 21..108 THEN << <<"release", p[3]>> >>
    ELSE IF p[1] % 16 = 9 /\ p[3] \in 21..108 THEN << <<"press", p[3]>> >>
    ELSE IF p[1] % 16 = 11 /\ p[3] = 123 /\ p[4] = 0 THEN << <<"release_all">> >>
    ELSE <<>>

RECURSIVE ExpectedTrace(_)
ExpectedTrace(ps) ==
    IF ps = <<>> THEN <<>>
    ELSE ExpectedCalls(Head(ps)) \o ExpectedTrace(Tail(ps))

\* C7: the synth calls made during one connection are, in order, the calls
\* of the packets yielded during it, each packet's call made before the
\* next packet is taken; a note on followed by a note off for the same note
\* leaves that note silent.
C7_InOrder ==
    /\ issued = ExpectedTrace(delivered)
    /\ (op = "packet" /\ delivered # <<>>) =>
          /\ data = delivered[Len(delivered)]
          /\ cmds = ExpectedCalls(data)
          /\ issued = ExpectedTrace(SubSeq(delivered, 1, Len(delivered) - 1))
                      \o cmds
    /\ \A i \in 1..(Len(delivered) - 1) :
          (/\ i + 1 = Len(delivered)
           /\ delivered[i][1] % 16 = 9
           /\ delivered[i + 1][1] % 16 = 8
           /\ delivered[i][3] = delivered[i + 1][3]) =>
              delivered[i][3] \notin pressed

C7_Witness ==
    /\ op = "packet"
    /\ delivered = << <<9, 144, 60, 0>>, <<8, 144, 60, 0>> >>
    /\ issued = << <<"press", 60>>, <<"release", 60>> >>
    /\ pressed = {}

\* C8: the supervisor is always scanning or connected and can always take
\* a further step; it is connected only by opening a device or handling
\* what the device yields, and a transport error or the end of the stream
\* puts it back to scanning.
C8_NoTerminalState ==
    /\ state \in {"Scanning", "Connected"}
    /\ ENABLED Next
    /\ op \in {"fault", "eos"} => state = "Scanning"
    /\ state = "Connected" => op \in {"open", "idle", "packet"}
    /\ op = "open" => state = "Connected"

C8_Witness ==
    /\ op = "fault"
    /\ state = "Scanning"
    /\ dev = "open"
    /\ data # None

\* C9: a USBError raised while scanning, identifying or streaming, and a
\* ValueError raised while identifying the device, are both caught: the
\* supervisor is scanning again with no scan result and an empty cache, no
\* synth call was made, the pool is as it was, and the error is printed;
\* no exception leaves the loop.
C9_FaultsRecovered ==
    /\ state # "Crashed"
    /\ exc # "none" =>
          /\ exc \in {"USBError", "ValueError"}
          /\ op \in {"find_error", "open_error", "fault"}
          /\ state = "Scanning"
          /\ r = "None"
          /\ device_cache = {}
          /\ cmds = <<>>
          /\ pressed = before
          /\ out = << <<exc>>, <<"scanning">> >>

C9_Witness ==
    /\ exc = "ValueError"
    /\ op = "open_error"
    /\ state = "Scanning"
    /\ pressed = {60}

\* C10: only a handled packet changes the pool: a fault, the end of the
\* stream and every step of scanning and reconnecting leave every sounding
\* note sounding, and a note stops sounding only by a note off for it or by
\* control change 123 = 0.
C10_DisconnectKeepsPool ==
    /\ op # "packet" => pressed = before
    /\ state = "Scanning" => pressed = before
    /\ \A n \in before \ pressed :
          /\ Handled
          /\ \/ data[1] % 16 = 8 /\ data[3] = n
             \/ data[1] % 16 = 11 /\ data[3] = 123 /\ data[4] = 0

C10_Witness ==
    /\ op = "open"
    /\ state = "Connected"
    /\ dev = "open"
    /\ 60 \in pressed

\* C11: when the generator yields None the iteration does nothing: no synth
\* call, no line written, the pool, the decoded fields and the thinning
\* counters keep their values, nothing is raised and the loop stays
\* connected, ready for the next value.
C11_NoneTickNoEffect ==
    [][op' = "idle" =>
          /\ data' = None
          /\ cmds' = <<>>
          /\ out' = <<>>
          /\ pressed' = pressed
          /\ <<cin', chan', num', val'>> = <<cin, chan, num, val>>
          /\ <<mpe_skip', cp_skip'>> = <<mpe_skip, cp_skip>>
          /\ exc' = "none"
          /\ state = "Connected" /\ state' = "Connected"
          /\ <<r', dev', device_cache'>> = <<r, dev, device_cache>>]_vars

C11_Witness ==
    /\ op = "idle"
    /\ data = None
    /\ cin = 9 /\ num = 21
    /\ pressed = {21}
    /\ DEBUG
    /\ state = "Connected"

\* The packet p with its cable number replaced by cn.
OnCable(p, cn) == <<(16 * cn) + (p[1] % 16), p[2], p[3], p[4]>>

\* C12: the synth calls a handled packet made, and the pool they left, are
\* those of the same packet arriving on any of the 16 cables: the high
\* nibble of byte 0 changes neither.
C12_CableDiscarded ==
    Handled =>
        \A cn \in 0..15 :
            /\ LoopCalls(OnCable(data, cn)) = cmds
            /\ SynthCalls(before, LoopCalls(OnCable(data, cn))) = pressed

C12_Witness ==
    /\ Handled
    /\ data = <<25, 144, 60, 100>>
    /\ cmds = << <<"press", 60>> >>
    /\ pressed = {60}

\* The pool the i-th packet of this connection left behind.
PoolAfter(i) == IF i < Len(delivered) THEN heard[i + 1] ELSE pressed

\* C13: a note on for a silent note in 21..108 directly followed by a note
\* off for the same note leaves the pool exactly as the note on found it:
\* the note is silent again and no other note changed.
C13_OnOffRoundTrip ==
    /\ Len(heard) = Len(delivered)
    /\ \A i \in 1..(Len(delivered) - 1) :
          (/\ delivered[i][1] % 16 = 9
           /\ delivered[i][3] \in 21..108
           /\ delivered[i][3] \notin heard[i]
           /\ delivered[i + 1][1] % 16 = 8
           /\ delivered[i + 1][3] = delivered[i][3]) =>
              /\ PoolAfter(i) = heard[i] \cup {delivered[i][3]}
              /\ PoolAfter(i + 1) = heard[i]

C13_Witness ==
    /\ delivered = << <<9, 144, 21, 0>>, <<9, 144, 60, 0>>, <<8, 144, 60, 0>> >>
    /\ heard = << {}, {21}, {21, 60} >>
    /\ pressed = {21}

\* C14: every sounding note lies in 21..108, so at most 88 notes sound, the
\* pool holding each note at most once; a note on for a note that already
\* sounds makes one press call and leaves the pool, and the number of
\* sounding notes, as they were.
C14_PoolBounded ==
    /\ pressed \subseteq 21..108
    /\ Cardinality(pressed) <= 88
    /\ (Handled /\ data[1] % 16 = 9 /\ data[3] \in before) =>
          /\ cmds = << <<"press", data[3]>> >>
          /\ pressed = before
          /\ Cardinality(pressed) = Cardinality(before)

C14_Witness ==
    /\ Handled
    /\ data = <<9, 178, 108, 100>>
    /\ before = {21, 108}
    /\ pressed = {21, 108}

\* The packet p with the channel nibble of its status byte replaced by ch.
OnChannel(p, ch) == <<p[1], ((p[2] \div 16) * 16) + ch, p[3], p[4]>>

\* C15, as stated: control change 123 = 0 has the same effect on every
\* channel, and it is the only one: for a note on or note off with a note in
\* 21..108 some channel gives other synth calls.
C15_OnlyPanicChannelAgnostic ==
    Handled =>
        /\ (data[1] % 16 = 11 /\ data[3] = 123 /\ data[4] = 0) =>
              \A ch \in 0..15 : LoopCalls(OnChannel(data, ch)) = cmds
        /\ (data[1] % 16 \in {8, 9} /\ data[3] \in 21..108) =>
              \E ch \in 0..15 : LoopCalls(OnChannel(data, ch)) # cmds

\* C15, amended: control change 123 = 0 has the same effect on every
\* channel, and so have note on, note off and every other packet: the synth
\* calls a handled packet made, and the pool they left, are those of the
\* same packet on any of the 16 channels.
C15_ChannelAgnostic ==
    Handled =>
        \A ch \in 0..15 :
            /\ LoopCalls(OnChannel(data, ch)) = cmds
            /\ SynthCalls(before, LoopCalls(OnChannel(data, ch))) = pressed

C15_Witness ==
    /\ Handled
    /\ data = <<8, 178, 60, 0>>
    /\ chan = 3
    /\ cmds = << <<"release", 60>> >>
    /\ 60 \in before
    /\ 60 \notin pressed

\* C16: a synth call is made only by a step that handles a packet while
\* connected to the opened device; the supervisor leaves scanning only by
\* opening a found device that is a MIDI device; while it scans no value is
\* taken from a generator and the pool is left alone; a found device that
\* is not a MIDI device is refused and the scan starts again.
C16_DispatchOnlyConnected ==
    [][/\ cmds' # <<>> =>
             /\ state = "Connected" /\ state' = "Connected"
             /\ dev' = "open"
             /\ op' = "packet"
       /\ (state = "Scanning" /\ state' = "Connected") =>
             /\ r = "midi"
             /\ op' = "open"
             /\ dev' = "open"
       /\ state = "Scanning" =>
             /\ data' = data
             /\ pressed' = pressed
             /\ cmds' = <<>>
             /\ op' \notin {"packet", "idle", "recv"}
       /\ r = "other" =>
             /\ state' = "Scanning"
             /\ op' = "open_error"
             /\ r' = "None"]_vars

C16_Witness ==
    /\ state = "Scanning"
    /\ op = "open_error"
    /\ exc = "ValueError"
    /\ dev = "unbound"
    /\ data = None
    /\ pressed = {}

\* C17: when a transport error ends a connection the supervisor is back in
\* Scanning with every piece of transport-held state discarded (no device
\* handle bound, no scan result, an empty scan cache) and with the
\* thinning countdowns at their initial values.
C17_FaultDiscardsTransportState ==
    (state = "Scanning" /\ op = "fault" /\ exc = "USBError") =>
        /\ dev = "unbound"
        /\ r = "None"
        /\ device_cache = {}
        /\ mpe_skip = 6
        /\ cp_skip = 6

\* C18: every step makes at most one synth call, and a handled packet makes
\* a call of one kind only: release for code index 8, press for code index
\* 9, release_all for code index 11, never two of them.
C18_AtMostOneCommand ==
    /\ Len(cmds) <= 1
    /\ Handled =>
          /\ (data[1] % 16 = 8) => cmds \in {<<>>, << <<"release", data[3]>> >>}
          /\ (data[1] % 16 = 9) => cmds \in {<<>>, << <<"press", data[3]>> >>}
          /\ (data[1] % 16 = 11) => cmds \in {<<>>, << <<"release_all">> >>}
          /\ (data[1] % 16 \notin {8, 9, 11}) => cmds = <<>>

C18_Witness ==
    /\ Handled
    /\ data = <<9, 178, 108, 0>>
    /\ cmds = << <<"press", 108>> >>
    /\ before = {21}
    /\ pressed = {21, 108}

\* The text a handled packet writes whatever DEBUG is: the PANIC line of the
\* panic branch, nothing otherwise.
DispatchText ==
    IF data[1] % 16 = 11 /\ data[3] = 123 /\ data[4] = 0
    THEN << <<"PANIC", (data[2] % 16) + 1, data[3], data[4]>> >>
    ELSE <<>>

\* C19: DEBUG has no part in dispatch or in the supervisor.  It never
\* changes; the synth calls of a handled packet and the pool they leave are
\* the function of the packet and of the pool before that is computed
\* without DEBUG; the supervisor's state after each kind of step is fixed by
\* the step alone; with DEBUG false the output is the dispatch text, with
\* DEBUG true it is that text followed by at most one trace line.
C19_DebugNoInfluence ==
    /\ Handled =>
          /\ cmds = LoopCalls(data)
          /\ pressed = SynthCalls(before, LoopCalls(data))
          /\ state = "Connected"
          /\ ~DEBUG => out = DispatchText
          /\ DEBUG => /\ SubSeq(out, 1, Len(DispatchText)) = DispatchText
                      /\ Len(out) <= Len(DispatchText) + 1
                      /\ (data[1] % 16 \in {8, 9, 10, 11, 13, 14})
                            => Len(out) = Len(DispatchText) + 1
    /\ op \in {"packet", "idle", "open"} => state = "Connected"
    /\ (op \in {"fault", "find_error", "open_error"}
          /\ exc \in {"USBError", "ValueError"}) => state = "Scanning"

C19_Witness ==
    /\ Handled
    /\ DEBUG
    /\ data = <<9, 144, 60, 100>>
    /\ cmds = << <<"press", 60>> >>
    /\ 60 \notin before
    /\ 60 \in pressed
    /\ out = << <<"On", 1, 60, 100>> >>

\* C20: a NoteOn (code index 9) of a note in 21..108 with velocity 0 calls
\* press for the note and leaves it sounding; and a note leaves the pool
\* only by a NoteOff of code index 8 for it, by the panic message, or by
\* nothing at all: never by a packet of code index 9.
C20_VelocityZeroPresses ==
    Handled =>
        /\ (data[1] % 16 = 9 /\ data[3] \in 21..108 /\ data[4] = 0) =>
              /\ cmds = << <<"press", data[3]>> >>
              /\ data[3] \in pressed
              /\ pressed = before \cup {data[3]}
        /\ \A n \in before \ pressed :
              \/ data[1] % 16 = 8 /\ data[3] = n
              \/ data[1] % 16 = 11 /\ data[3] = 123 /\ data[4] = 0

C20_Witness ==
    /\ Handled
    /\ data = <<9, 144, 60, 0>>
    /\ cmds = << <<"press", 60>> >>
    /\ before = {21, 60}
    /\ pressed = {21, 60}

====
